---- MODULE Spec2Model ----
(***************************************************************************)
(* Model of ejri/agritech_hackathon:                                       *)
(*   - the Flask upload handler of app-final.py (specification Spec),      *)
(*   - DataLoader / ClassificationDataLoader of dataloader.py              *)
(*     (specification SpecLoader),                                         *)
(*   - model_spec.get of model_spec/__init__.py (specification SpecGet).   *)
(***************************************************************************)
EXTENDS Integers, Sequences, FiniteSets, TLC

VARIABLES
  threaded,     \* whether the development server serves requests in threads
  dirs,         \* directories that exist on disk (resolved paths)
  disk,         \* resolved file path -> bytes stored there, or NoFile
  labelsExist,  \* retrained_labels.txt is present
  graphExists,  \* retrained_graph.pb is present
  pc,           \* request -> position in upload()
  files,        \* request -> request.files.getlist("file")
  idx,          \* request -> number of loop iterations of line 27 completed
  destination,  \* request -> local `destination` (Unbound before the loop body ran)
  image_data,   \* request -> bytes read at line 34
  predictions,  \* request -> predictions[0] returned by sess.run
  name,         \* request -> list `name` handed to the template
  scores,       \* request -> list `scores` handed to the template
  exc,          \* request -> the uncaught exception, "" when none
  sessRuns,     \* request -> number of sess.run calls made
  pool,         \* the DataLoader objects constructed so far
  call,         \* the last call made on a loader, with what it returned
  kinds,        \* what kind of object each spec module's *_spec names are
  got           \* the last call of model_spec.get, with what it returned

webVars == <<threaded, dirs, disk, labelsExist, graphExists, pc, files, idx,
             destination, image_data, predictions, name, scores, exc, sessRuns>>

loaderVars == <<pool, call>>

getVars == <<kinds, got>>

vars == <<webVars, loaderVars, getVars>>

----------------------------------------------------------------------------
(* Bounds of the model *)

MaxFiles == 2     \* files in one multipart field "file"

\* Two POST /upload requests, enough for any two of them to overlap.
Reqs == {"r1", "r2"}

\* Client-supplied filenames, as their "/"-separated components.
\* A plain name, a name that climbs out of the directory, and the empty name
\* a form posts when no file was chosen.
FileNames == { <<"a.jpg">>, <<"..", "a.jpg">>, <<>> }

\* The bytes of the i-th file of request r: every uploaded file has its own.
Bytes(r, i) == <<r, i>>

RECURSIVE SeqsUpTo(_, _)
SeqsUpTo(S, n) ==
  IF n = 0 THEN { <<>> }
  ELSE LET shorter == SeqsUpTo(S, n - 1)
       IN  shorter \cup { Append(s, x) : s \in { t \in shorter : Len(t) = n - 1 }, x \in S }

\* The lines of retrained_labels.txt, one per output of the softmax layer.
label_lines == <<"healthy", "diseased">>
NumLabels == Len(label_lines)

\* Confidences and scores are rationals num / den.
Rat(num, den) == [num |-> num, den |-> den]
Gt(a, b) == a.num * b.den > b.num * a.den
Geq(a, b) == a.num * b.den >= b.num * a.den

\* 0.2, 0.21 and 0.6
ConfValues == { Rat(1, 5), Rat(21, 100), Rat(3, 5) }
PredVectors == [1..NumLabels -> ConfValues]

NoCall == [op |-> "none"]
NoFile == "NoFile"
Unbound == <<"Unbound">>
NoData == "NoData"

----------------------------------------------------------------------------
(* Paths *)

APP_ROOT == <<"APP_ROOT">>

\* os.path.join(APP_ROOT, 'images/'): the trailing slash is an empty component.
target == APP_ROOT \o <<"images", "">>

\* "/".join([target, filename])
JoinSlash(t, filename) == t \o filename

\* The file the operating system opens for a path: empty components are
\* skipped and ".." steps to the parent directory.
RECURSIVE Resolve(_)
Resolve(p) ==
  IF p = <<>> THEN <<>>
  ELSE LET init == Resolve(SubSeq(p, 1, Len(p) - 1))
           last == p[Len(p)]
       IN  IF last = "" THEN init
           ELSE IF last = ".." THEN
                  (IF init = <<>> THEN <<>> ELSE SubSeq(init, 1, Len(init) - 1))
           ELSE Append(init, last)

Parent(p) == SubSeq(p, 1, Len(p) - 1)

imagesDir == Resolve(target)

FilePaths == { Resolve(JoinSlash(target, f)) : f \in FileNames } \ {imagesDir}

InImages(p) == Len(p) = Len(imagesDir) + 1 /\ Parent(p) = imagesDir

----------------------------------------------------------------------------
(* Classification result, lines 45-55 *)

\* score = score * 100
Percent(c) == Rat(c.num * 100, c.den)

\* a threshold that lets a score of exactly 20 through
MutAboveThreshold(score) == Geq(score, Rat(20, 1))

\* if (score > 20)
AboveThreshold(score) == Gt(score, Rat(20, 1))


Perms(n) == { p \in [1..n -> 1..n] : \A i, j \in 1..n : i # j => p[i] # p[j] }

\* predictions[0].argsort()[-len(predictions[0]):][::-1]: node ids by
\* descending confidence; the order among equal confidences is the sort's.
TopK(pred) ==
  { p \in Perms(NumLabels) :
      \A i, j \in 1..NumLabels : i < j => Geq(pred[p[i]], pred[p[j]]) }

RECURSIVE Collect(_, _, _)
\* the loop of lines 48-55 over top_k from position i on
Collect(pred, top_k, i) ==
  IF i > Len(top_k) THEN [name |-> <<>>, scores |-> <<>>]
  ELSE LET node_id == top_k[i]
           score == Percent(pred[node_id])
           rest == Collect(pred, top_k, i + 1)
       IN  IF AboveThreshold(score)
           THEN [name |-> <<label_lines[node_id]>> \o rest.name,
                 scores |-> <<score>> \o rest.scores]
           ELSE rest

----------------------------------------------------------------------------
(* POST /upload *)

Finished(r) == pc[r] \in {"rendered", "error"}
Active(r) == pc[r] \notin {"idle", "rendered", "error"}

Raise(r, e) ==
  /\ pc' = [pc EXCEPT ![r] = "error"]
  /\ exc' = [exc EXCEPT ![r] = e]

\* The server accepts a request; without threads only when no other is running.
Receive(r) ==
  /\ pc[r] = "idle"
  /\ threaded \/ \A q \in Reqs : ~Active(q)
  /\ \E fns \in SeqsUpTo(FileNames, MaxFiles) :
       files' = [files EXCEPT ![r] =
                   [i \in 1..Len(fns) |-> [filename |-> fns[i], bytes |-> Bytes(r, i)]]]
  /\ pc' = [pc EXCEPT ![r] = "isdir"]
  /\ UNCHANGED <<threaded, dirs, disk, labelsExist, graphExists, idx, destination,
                 image_data, predictions, name, scores, exc, sessRuns>>
  /\ UNCHANGED <<loaderVars, getVars>>

\* line 25: if not os.path.isdir(target)
IsDir(r) ==
  /\ pc[r] = "isdir"
  /\ pc' = [pc EXCEPT ![r] = IF imagesDir \in dirs THEN "loop" ELSE "mkdir"]
  /\ UNCHANGED <<threaded, dirs, disk, labelsExist, graphExists, files, idx,
                 destination, image_data, predictions, name, scores, exc, sessRuns>>
  /\ UNCHANGED <<loaderVars, getVars>>

\* line 26: os.mkdir(target)
MkDir(r) ==
  /\ pc[r] = "mkdir"
  /\ IF imagesDir \in dirs
       THEN Raise(r, "FileExistsError") /\ UNCHANGED dirs
       ELSE /\ dirs' = dirs \cup {imagesDir}
            /\ pc' = [pc EXCEPT ![r] = "loop"]
            /\ UNCHANGED exc
  /\ UNCHANGED <<threaded, disk, labelsExist, graphExists, files, idx,
                 destination, image_data, predictions, name, scores, sessRuns>>
  /\ UNCHANGED <<loaderVars, getVars>>

\* lines 27-32: one iteration of the loop over the uploaded files
SaveFile(r) ==
  /\ pc[r] = "loop"
  /\ idx[r] < Len(files[r])
  /\ LET file == files[r][idx[r] + 1]
         dest == JoinSlash(target, file.filename)
         path == Resolve(dest)
     IN  /\ destination' = [destination EXCEPT ![r] = dest]
         /\ IF path \in dirs
              THEN Raise(r, "IsADirectoryError") /\ UNCHANGED <<disk, idx>>
            ELSE IF Parent(path) \notin dirs
              THEN Raise(r, "FileNotFoundError") /\ UNCHANGED <<disk, idx>>
            ELSE /\ disk' = [disk EXCEPT ![path] = file.bytes]
                 /\ idx' = [idx EXCEPT ![r] = idx[r] + 1]
                 /\ UNCHANGED <<pc, exc>>
  /\ UNCHANGED <<threaded, dirs, labelsExist, graphExists, files,
                 image_data, predictions, name, scores, sessRuns>>
  /\ UNCHANGED <<loaderVars, getVars>>

\* leaving the loop after the first file
MutAssignImg(r) ==
  /\ pc[r] = "loop"
  /\ idx[r] = Len(files[r]) \/ idx[r] >= 1
  /\ IF destination[r] = Unbound
       THEN Raise(r, "UnboundLocalError")
       ELSE pc' = [pc EXCEPT ![r] = "read"] /\ UNCHANGED exc
  /\ UNCHANGED <<threaded, dirs, disk, labelsExist, graphExists, files, idx,
                 destination, image_data, predictions, name, scores, sessRuns>>
  /\ UNCHANGED <<loaderVars, getVars>>

\* line 33: img=destination, once the loop is exhausted
AssignImg(r) ==
  /\ pc[r] = "loop"
  /\ idx[r] = Len(files[r])
  /\ IF destination[r] = Unbound
       THEN Raise(r, "UnboundLocalError")
       ELSE pc' = [pc EXCEPT ![r] = "read"] /\ UNCHANGED exc
  /\ UNCHANGED <<threaded, dirs, disk, labelsExist, graphExists, files, idx,
                 destination, image_data, predictions, name, scores, sessRuns>>
  /\ UNCHANGED <<loaderVars, getVars>>

\* reading the first uploaded file instead of the last
MutReadImage(r) ==
  /\ pc[r] = "read"
  /\ LET path == Resolve(JoinSlash(target, files[r][1].filename))
     IN  IF path \notin FilePaths \/ disk[path] = NoFile
           THEN Raise(r, "NotFoundError") /\ UNCHANGED image_data
           ELSE /\ image_data' = [image_data EXCEPT ![r] = disk[path]]
                /\ pc' = [pc EXCEPT ![r] = "labels"]
                /\ UNCHANGED exc
  /\ UNCHANGED <<threaded, dirs, disk, labelsExist, graphExists, files, idx,
                 destination, predictions, name, scores, sessRuns>>
  /\ UNCHANGED <<loaderVars, getVars>>

\* line 34: image_data = tf.gfile.FastGFile(img, 'rb').read()
ReadImage(r) ==
  /\ pc[r] = "read"
  /\ LET path == Resolve(destination[r])
     IN  IF path \notin FilePaths \/ disk[path] = NoFile
           THEN Raise(r, "NotFoundError") /\ UNCHANGED image_data
           ELSE /\ image_data' = [image_data EXCEPT ![r] = disk[path]]
                /\ pc' = [pc EXCEPT ![r] = "labels"]
                /\ UNCHANGED exc
  /\ UNCHANGED <<threaded, dirs, disk, labelsExist, graphExists, files, idx,
                 destination, predictions, name, scores, sessRuns>>
  /\ UNCHANGED <<loaderVars, getVars>>

\* a missing label file swallowed instead of raised
MutReadLabels(r) ==
  /\ pc[r] = "labels"
  /\ pc' = [pc EXCEPT ![r] = "graph"]
  /\ UNCHANGED <<threaded, dirs, disk, labelsExist, graphExists, files, idx,
                 destination, image_data, predictions, name, scores, exc, sessRuns>>
  /\ UNCHANGED <<loaderVars, getVars>>

\* lines 35-36: label_lines read from retrained_labels.txt
ReadLabels(r) ==
  /\ pc[r] = "labels"
  /\ IF labelsExist
       THEN pc' = [pc EXCEPT ![r] = "graph"] /\ UNCHANGED exc
       ELSE Raise(r, "NotFoundError")
  /\ UNCHANGED <<threaded, dirs, disk, labelsExist, graphExists, files, idx,
                 destination, image_data, predictions, name, scores, sessRuns>>
  /\ UNCHANGED <<loaderVars, getVars>>

\* lines 37-40: the frozen graph is read and imported
LoadGraph(r) ==
  /\ pc[r] = "graph"
  /\ IF graphExists
       THEN pc' = [pc EXCEPT ![r] = "session"] /\ UNCHANGED exc
       ELSE Raise(r, "NotFoundError")
  /\ UNCHANGED <<threaded, dirs, disk, labelsExist, graphExists, files, idx,
                 destination, image_data, predictions, name, scores, sessRuns>>
  /\ UNCHANGED <<loaderVars, getVars>>

\* lines 41-56: sess.run on image_data, the name/scores lists, render_template
Classify(r) ==
  /\ pc[r] = "session"
  /\ \E pred \in PredVectors : \E top_k \in TopK(pred) :
       LET out == Collect(pred, top_k, 1)
       IN  /\ predictions' = [predictions EXCEPT ![r] = pred]
           /\ name' = [name EXCEPT ![r] = out.name]
           /\ scores' = [scores EXCEPT ![r] = out.scores]
  /\ sessRuns' = [sessRuns EXCEPT ![r] = sessRuns[r] + 1]
  /\ pc' = [pc EXCEPT ![r] = "rendered"]
  /\ UNCHANGED <<threaded, dirs, disk, labelsExist, graphExists, files, idx,
                 destination, image_data, exc>>
  /\ UNCHANGED <<loaderVars, getVars>>

Init ==
  /\ threaded \in BOOLEAN
  /\ dirs \in { {APP_ROOT}, {APP_ROOT, imagesDir} }
  /\ disk = [p \in FilePaths |-> NoFile]
  /\ labelsExist \in BOOLEAN
  /\ graphExists \in BOOLEAN
  /\ pc = [r \in Reqs |-> "idle"]
  /\ files = [r \in Reqs |-> <<>>]
  /\ idx = [r \in Reqs |-> 0]
  /\ destination = [r \in Reqs |-> Unbound]
  /\ image_data = [r \in Reqs |-> NoData]
  /\ predictions = [r \in Reqs |-> <<>>]
  /\ name = [r \in Reqs |-> <<>>]
  /\ scores = [r \in Reqs |-> <<>>]
  /\ exc = [r \in Reqs |-> ""]
  /\ sessRuns = [r \in Reqs |-> 0]
  /\ pool = <<>>
  /\ call = NoCall
  /\ kinds = <<>>
  /\ got = NoCall

Next ==
  \E r \in Reqs :
    \/ Receive(r)
    \/ IsDir(r)
    \/ MkDir(r)
    \/ SaveFile(r)
    \/ AssignImg(r)
    \/ ReadImage(r)
    \/ ReadLabels(r)
    \/ LoadGraph(r)
    \/ Classify(r)

Spec == Init /\ [][Next]_vars

----------------------------------------------------------------------------
(* Values for the variables a specification does not use *)

WebIdle ==
  /\ threaded = FALSE
  /\ dirs = {APP_ROOT}
  /\ disk = [p \in FilePaths |-> NoFile]
  /\ labelsExist = FALSE
  /\ graphExists = FALSE
  /\ pc = [r \in Reqs |-> "idle"]
  /\ files = [r \in Reqs |-> <<>>]
  /\ idx = [r \in Reqs |-> 0]
  /\ destination = [r \in Reqs |-> Unbound]
  /\ image_data = [r \in Reqs |-> NoData]
  /\ predictions = [r \in Reqs |-> <<>>]
  /\ name = [r \in Reqs |-> <<>>]
  /\ scores = [r \in Reqs |-> <<>>]
  /\ exc = [r \in Reqs |-> ""]
  /\ sessRuns = [r \in Reqs |-> 0]

----------------------------------------------------------------------------
(* dataloader.py: floating-point fractions *)

MaxSize == 7      \* elements of the root dataset
MaxLoaders == 5   \* loaders constructed in one run
MaxBatch == 2     \* batch_size passed to gen_dataset
MantBits == 4     \* significand bits of the modelled binary float format

RECURSIVE Pow2(_)
Pow2(k) == IF k = 0 THEN 1 ELSE 2 * Pow2(k - 1)

RECURSIVE BitLen(_)
\* number of binary digits of a natural number
BitLen(n) == IF n = 0 THEN 0 ELSE 1 + BitLen(n \div 2)

\* A float is the rational m / 2^e, m an integer of at most MantBits bits.
Float(m, e) == [m |-> m, e |-> e]

\* Nearest integer with at most MantBits significant bits, ties to even:
\* the rounding every float operation ends with.
RoundToMant(n) ==
  IF BitLen(n) <= MantBits THEN n
  ELSE LET unit == Pow2(BitLen(n) - MantBits)
           q == n \div unit
           rem == n % unit
           up == 2 * rem > unit \/ (2 * rem = unit /\ q % 2 = 1)
       IN  (IF up THEN q + 1 ELSE q) * unit

\* self._size * fraction: the int is converted to float, the product rounded
FloatMul(n, f) == Float(RoundToMant(RoundToMant(n) * f.m), f.e)

\* int(x): truncation toward zero
IntOf(x) ==
  IF x.m >= 0 THEN x.m \div Pow2(x.e) ELSE 0 - ((0 - x.m) \div Pow2(x.e))

\* fraction <= 1 in place of fraction < 1
MutLtOne(f) == f.m <= Pow2(f.e)

\* fraction > 0
GtZero(f) == f.m > 0

\* fraction < 1
LtOne(f) == f.m < Pow2(f.e)

\* The normalised floats of [1/4, 1), and four values outside (0, 1):
\* 0, 1, -1/2 and 3/2.
Fractions ==
  { Float(m, e) : m \in Pow2(MantBits - 1)..(Pow2(MantBits) - 1),
                  e \in MantBits..(MantBits + 1) }
  \cup { Float(0, 0), Float(1, 0), Float(0 - 1, 1), Float(3, 1) }

----------------------------------------------------------------------------
(* dataloader.py: DataLoader and ClassificationDataLoader *)

None == "None"

\* input_pipeline_context=None
NoContext == [none |-> TRUE]

LabelMaps == { <<"healthy", "diseased">>, <<"healthy", "rust", "blight">> }

\* tf.data.Dataset.take(count) and skip(count) on a finite ordered dataset
Take(ds, count) ==
  IF count < 0 \/ count > Len(ds) THEN ds ELSE SubSeq(ds, 1, count)

\* skipping one element too many
MutSkip(ds, count) ==
  IF count < 0 \/ count + 1 > Len(ds) THEN <<>> ELSE SubSeq(ds, count + 2, Len(ds))

Skip(ds, count) ==
  IF count < 0 \/ count > Len(ds) THEN <<>> ELSE SubSeq(ds, count + 1, Len(ds))

\* self.__class__(dataset, size, *args): DataLoader.__init__ and
\* ClassificationDataLoader.__init__
New(cls, dataset, size, args) ==
  IF cls = "ClassificationDataLoader"
    THEN [cls |-> cls, dataset |-> dataset, size |-> size, index_to_label |-> args[1]]
    ELSE [cls |-> cls, dataset |-> dataset, size |-> size, index_to_label |-> None]

\* __len__
LenOf(l) == l.size

\* num_classes
NumClasses(l) == Len(l.index_to_label)

\* what split hands to _split after the fraction
SplitArgs(self) ==
  IF self.cls = "ClassificationDataLoader" THEN <<self.index_to_label>> ELSE <<>>

\* train_size = int(self._size * fraction)
TrainSize(self, fraction) == IntOf(FloatMul(self.size, fraction))

\* the halves built as plain DataLoader instead of self.__class__
MutSplitResult(self, fraction, args) ==
  LET ds == self.dataset
      train_size == TrainSize(self, fraction)
      test_size == self.size - train_size
  IN  << New("DataLoader", Take(ds, train_size), train_size, <<>>),
         New("DataLoader", Skip(ds, train_size), test_size, <<>>) >>

\* the two constructor calls of _split
SplitResult(self, fraction, args) ==
  LET ds == self.dataset
      train_size == TrainSize(self, fraction)
      trainset == New(self.cls, Take(ds, train_size), train_size, args)
      test_size == self.size - train_size
      testset == New(self.cls, Skip(ds, train_size), test_size, args)
  IN  <<trainset, testset>>

\* split(fraction) on the i-th loader
Split(i, fraction) ==
  /\ i \in 1..Len(pool)
  /\ LET self == pool[i]
     IN  IF ~(GtZero(fraction) /\ LtOne(fraction))
           THEN /\ pool' = pool
                /\ call' = [op |-> "split", self |-> i, before |-> pool,
                            fraction |-> fraction, raised |-> "AssertionError",
                            result |-> <<>>]
           ELSE /\ Len(pool) + 2 <= MaxLoaders
                /\ pool' = pool \o SplitResult(self, fraction, SplitArgs(self))
                /\ call' = [op |-> "split", self |-> i, before |-> pool,
                            fraction |-> fraction, raised |-> "",
                            result |-> <<Len(pool) + 1, Len(pool) + 2>>]
  /\ UNCHANGED <<webVars, getVars>>

\* _shard(ds, input_pipeline_context)
Shard(ds, ctx) ==
  IF ctx # NoContext /\ ctx.num_input_pipelines > 1
    THEN [ds EXCEPT !.ops = Append(@, [op |-> "shard",
                 args |-> <<ctx.num_input_pipelines, ctx.input_pipeline_id>>])]
    ELSE ds

Min(a, b) == IF a < b THEN a ELSE b

Stage(ds, op, args) == [ds EXCEPT !.ops = Append(@, [op |-> op, args |-> args])]

\* shuffling whenever shuffle is set, training or not
MutGenResult(self, batch_size, is_training, shuffle, ctx, preprocess) ==
  LET ds0 == [source |-> self.dataset, ops |-> <<>>]
      ds1 == Shard(ds0, ctx)
      ds2 == IF preprocess # None THEN Stage(ds1, "map", <<>>) ELSE ds1
      ds3 == IF shuffle
               THEN Stage(ds2, "shuffle", <<Min(self.size, 3 * batch_size)>>)
               ELSE ds2
      ds4 == IF is_training THEN Stage(ds3, "repeat", <<>>) ELSE ds3
      ds5 == Stage(ds4, "batch", <<batch_size>>)
  IN  Stage(ds5, "prefetch", <<>>)

\* gen_dataset, lines 66-88
GenResult(self, batch_size, is_training, shuffle, ctx, preprocess) ==
  LET ds0 == [source |-> self.dataset, ops |-> <<>>]
      ds1 == Shard(ds0, ctx)
      ds2 == IF preprocess # None THEN Stage(ds1, "map", <<>>) ELSE ds1
      ds3 == IF is_training /\ shuffle
               THEN Stage(ds2, "shuffle", <<Min(self.size, 3 * batch_size)>>)
               ELSE ds2
      ds4 == IF is_training THEN Stage(ds3, "repeat", <<>>) ELSE ds3
      ds5 == Stage(ds4, "batch", <<batch_size>>)
  IN  Stage(ds5, "prefetch", <<>>)

Contexts ==
  { NoContext } \cup
  [num_input_pipelines : {1}, input_pipeline_id : {0}] \cup
  [num_input_pipelines : {2}, input_pipeline_id : {0, 1}]

GenDataset(i, batch_size, is_training, shuffle, ctx, preprocess) ==
  /\ i \in 1..Len(pool)
  /\ pool' = pool
  /\ call' = [op |-> "gen_dataset", self |-> i, before |-> pool,
              batch_size |-> batch_size, is_training |-> is_training,
              shuffle |-> shuffle, ctx |-> ctx, preprocess |-> preprocess,
              result |-> GenResult(pool[i], batch_size, is_training, shuffle,
                                   ctx, preprocess)]
  /\ UNCHANGED <<webVars, getVars>>

\* One loader over an ordered dataset of n distinct elements, of size n.
InitLoader ==
  /\ WebIdle
  /\ \E n \in 0..MaxSize :
       \/ pool = << New("DataLoader", [k \in 1..n |-> k], n, <<>>) >>
       \/ \E labels \in LabelMaps :
            pool = << New("ClassificationDataLoader", [k \in 1..n |-> k], n,
                          <<labels>>) >>
  /\ call = NoCall
  /\ kinds = <<>>
  /\ got = NoCall

\* split calls, nested ones included
NextLoader == \E i \in 1..MaxLoaders, f \in Fractions : Split(i, f)

SpecLoader == InitLoader /\ [][NextLoader]_vars

\* gen_dataset calls on a loader
NextGen ==
  \E i \in 1..MaxLoaders, b \in 1..MaxBatch, t \in BOOLEAN, sh \in BOOLEAN,
     ctx \in Contexts, pre \in {None, "preprocess"} :
    GenDataset(i, b, t, sh, ctx, pre)

SpecGen == InitLoader /\ [][NextGen]_vars

----------------------------------------------------------------------------
(* model_spec/__init__.py *)

\* A Python value is a string, [py |-> "str", v |-> ...], an object of known
\* kind, [py |-> "obj", kind |-> ..., name |-> ...], or a name imported from
\* image_spec or text_spec, whose kind is that module's business.
Str(v) == [py |-> "str", v |-> v]
Obj(kind, n) == [py |-> "obj", kind |-> kind, name |-> n]
Image(n) == [py |-> "import", module |-> "image_spec", name |-> n]
Text(n) == [py |-> "import", module |-> "text_spec", name |-> n]

Modules == {"image_spec", "text_spec"}
Kinds == {"class", "function", "partial", "instance"}

MODEL_SPECS ==
  "efficientnet_lite0" :> Image("efficientnet_lite0_spec") @@
  "efficientnet_lite1" :> Image("efficientnet_lite1_spec") @@
  "efficientnet_lite2" :> Image("efficientnet_lite2_spec") @@
  "efficientnet_lite3" :> Image("efficientnet_lite3_spec") @@
  "efficientnet_lite4" :> Image("efficientnet_lite4_spec") @@
  "mobilenet_v2" :> Image("mobilenet_v2_spec") @@
  "resnet_50" :> Image("resnet_50_spec") @@
  "average_word_vec" :> Text("average_word_vec_spec") @@
  "bert" :> Text("bert_spec") @@
  "bert_classifier" :> Text("bert_classifier_spec") @@
  "bert_qa" :> Text("bert_qa_spec") @@
  "mobilebert_classifier" :> Text("mobilebert_classifier_spec") @@
  "mobilebert_qa" :> Text("mobilebert_qa_spec") @@
  "mobilebert_qa_squad" :> Text("mobilebert_qa_squad_spec")

KindOf(v) == IF v.py = "import" THEN kinds[v.module] ELSE v.kind

\* isinstance(spec_or_str, str)
IsStr(v) == v.py = "str"

\* only classes are called, functions are returned as they are
MutIsClassOrFunction(v) == KindOf(v) = "class"

\* inspect.isclass(model_spec) or inspect.isfunction(model_spec)
IsClassOrFunction(v) == KindOf(v) = "class" \/ KindOf(v) = "function"

\* model_spec(): what the class or function returns for no arguments
CallNoArgs(v) == [py |-> "returned", by |-> v.name]

\* get(spec_or_str): [raised, result]
GetResult(spec_or_str) ==
  IF IsStr(spec_or_str) /\ spec_or_str.v \notin DOMAIN MODEL_SPECS
    THEN [raised |-> "KeyError", result |-> None]
    ELSE LET model_spec == IF IsStr(spec_or_str)
                             THEN MODEL_SPECS[spec_or_str.v]
                             ELSE spec_or_str
         IN  IF IsClassOrFunction(model_spec)
               THEN [raised |-> "", result |-> CallNoArgs(model_spec)]
               ELSE [raised |-> "", result |-> model_spec]

\* Arguments tried: every key, two strings that are no key, the imported
\* names themselves, and one object of each kind.
GetArgs ==
  { Str(k) : k \in DOMAIN MODEL_SPECS } \cup { Str("efficientnet_lite5"), Str("") }
  \cup { MODEL_SPECS[k] : k \in DOMAIN MODEL_SPECS }
  \cup { Obj("class", "ImageModelSpec"), Obj("function", "bert_qa_spec"),
         Obj("partial", "partial(ImageModelSpec)"), Obj("instance", "spec") }

Get(spec_or_str) ==
  /\ got' = [op |-> "get", arg |-> spec_or_str,
             raised |-> GetResult(spec_or_str).raised,
             result |-> GetResult(spec_or_str).result]
  /\ UNCHANGED <<kinds, webVars, loaderVars>>

InitGet ==
  /\ WebIdle
  /\ pool = <<>>
  /\ call = NoCall
  /\ kinds \in [Modules -> Kinds]
  /\ got = NoCall

NextGet == \E a \in GetArgs : Get(a)

SpecGet == InitGet /\ [][NextGet]_vars

\* C6: for a string get takes MODEL_SPECS[string], a string that is no key
\* raising KeyError and returning nothing; for any other value it takes the
\* value itself; a class or function taken is called without arguments and
\* the call's value returned, anything else is returned unchanged.
C6_GetByNameOrInstance ==
  got.op = "get" =>
    LET a == got.arg
        isKey == a.py = "str" /\ \E k \in DOMAIN MODEL_SPECS : k = a.v
        taken == IF a.py = "str" THEN MODEL_SPECS[a.v] ELSE a
        kind == IF taken.py = "import" THEN kinds[taken.module] ELSE taken.kind
    IN  IF a.py = "str" /\ ~isKey
          THEN got.raised = "KeyError" /\ got.result = None
          ELSE /\ got.raised = ""
               /\ kind \in {"class", "function"} =>
                    got.result = [py |-> "returned", by |-> taken.name]
               /\ kind \notin {"class", "function"} => got.result = taken

\* a key whose entry is a function: the function was called
C6_Witness ==
  /\ got.op = "get"
  /\ got.arg = Str("bert_qa")
  /\ kinds["text_spec"] = "function"
  /\ got.result = [py |-> "returned", by |-> "bert_qa_spec"]

----------------------------------------------------------------------------
(* Properties of DataLoader *)

SplitReturned == call.op = "split" /\ call.raised = ""

\* the loader split was called on, as it was before the call
SplitSelf == call.before[call.self]

First == pool[call.result[1]]
Second == pool[call.result[2]]

\* n * fraction as a rational: numerator over 2^e
ExactNum == SplitSelf.size * call.fraction.m

\* floor(n * fraction)
ExactFloor == ExactNum \div Pow2(call.fraction.e)

Partition(self, first, second, k) ==
  /\ first.dataset = SubSeq(self.dataset, 1, k)
  /\ LenOf(first) = k
  /\ Len(first.dataset) = k
  /\ second.dataset = SubSeq(self.dataset, k + 1, self.size)
  /\ LenOf(second) = self.size - k
  /\ Len(second.dataset) = self.size - k
  /\ first.dataset \o second.dataset = self.dataset
  /\ LenOf(first) + LenOf(second) = self.size

OutOfRange(f) == f.m <= 0 \/ f.m >= Pow2(f.e)

\* C8: split fails with an assertion error exactly for fraction <= 0 or >= 1
\* (0 and 1 included), before any sub-loader is constructed; failing or not,
\* the loaders that existed keep their dataset and size.
C8_FractionStrictlyInside ==
  call.op = "split" =>
    /\ OutOfRange(call.fraction) <=> call.raised = "AssertionError"
    /\ call.raised = "AssertionError" => pool = call.before /\ call.result = <<>>
    /\ call.raised = "" => Len(pool) = Len(call.before) + 2
    /\ \A j \in 1..Len(call.before) : pool[j] = call.before[j]

\* split(1) on a non-empty loader was refused
C8_Witness ==
  /\ call.op = "split"
  /\ call.fraction = Float(1, 0)
  /\ call.raised = "AssertionError"
  /\ SplitSelf.size > 0

\* C9: every loader split from a ClassificationDataLoader, at any depth, is a
\* ClassificationDataLoader with the same index_to_label and num_classes.
C9_SplitKeepsClass ==
  pool[1].cls = "ClassificationDataLoader" =>
    \A j \in 1..Len(pool) :
      /\ pool[j].cls = "ClassificationDataLoader"
      /\ pool[j].index_to_label = pool[1].index_to_label
      /\ NumClasses(pool[j]) = NumClasses(pool[1])

\* a half of a ClassificationDataLoader was split again
C9_Witness ==
  /\ pool[1].cls = "ClassificationDataLoader"
  /\ NumClasses(pool[1]) = 3
  /\ SplitReturned
  /\ call.self > 1
  /\ LenOf(First) > 0 /\ LenOf(Second) > 0

Rank(op) ==
  CASE op = "shard" -> 1
    [] op = "map" -> 2
    [] op = "shuffle" -> 3
    [] op = "repeat" -> 4
    [] op = "batch" -> 5
    [] op = "prefetch" -> 6

Has(ops, op) == \E i \in 1..Len(ops) : ops[i].op = op

\* C7: gen_dataset applies shard, map, shuffle, repeat, batch, prefetch in
\* that order: shard only with more than one input pipeline, map only with a
\* preprocess, shuffle only when training and shuffle are both set, with
\* buffer min(size, 3 * batch_size), repeat exactly when training, batch and
\* prefetch always; the loader itself is left as it was.
C7_PipelineOrder ==
  call.op = "gen_dataset" =>
    LET ops == call.result.ops
        self == call.before[call.self]
    IN  /\ \A i, j \in 1..Len(ops) : i < j => Rank(ops[i].op) < Rank(ops[j].op)
        /\ Has(ops, "shard") <=>
             (call.ctx # NoContext /\ call.ctx.num_input_pipelines > 1)
        /\ Has(ops, "map") <=> call.preprocess # None
        /\ Has(ops, "shuffle") <=> (call.is_training /\ call.shuffle)
        /\ \A i \in 1..Len(ops) :
             ops[i].op = "shuffle" =>
               ops[i].args = << IF self.size < 3 * call.batch_size
                                  THEN self.size ELSE 3 * call.batch_size >>
        /\ Has(ops, "repeat") <=> call.is_training
        /\ \A i \in 1..Len(ops) :
             ops[i].op = "batch" => ops[i].args = <<call.batch_size>>
        /\ Has(ops, "batch") /\ Has(ops, "prefetch")
        /\ call.result.source = self.dataset
        /\ pool = call.before

\* all six stages applied, the shuffle buffer capped by the dataset's size
C7_Witness ==
  /\ call.op = "gen_dataset"
  /\ Len(call.result.ops) = 6
  /\ call.result.ops[3].args = <<pool[call.self].size>>
  /\ pool[call.self].size < 3 * call.batch_size

----------------------------------------------------------------------------
(* Properties of POST /upload *)

LastFile(r) == files[r][Len(files[r])]

Dest(file) == JoinSlash(target, file.filename)

\* request q has saved a file of its own at the path request r reads
SavedThere(q, r) ==
  \E j \in 1..idx[q] :
    /\ Resolve(Dest(files[q][j])) = Resolve(destination[r])
    /\ files[q][j].bytes = image_data[r]

\* C1: every uploaded file, whatever its client-supplied filename, is saved
\* inside the images directory, which exists before the first save; nothing
\* is written outside it.
C1_SavedInsideImages ==
  \A p \in FilePaths :
    disk[p] # NoFile => InImages(p) /\ imagesDir \in dirs

\* C2: the rendered page gets lists name and scores of equal length,
\* scores[i] being 100 times the confidence of label name[i]; they hold
\* exactly the labels whose percentage is strictly above 20, each once, in
\* descending order of score.
C2_NameScoreLists ==
  \A r \in Reqs :
    pc[r] = "rendered" =>
      LET pred == predictions[r]
          n == name[r]
          s == scores[r]
      IN  /\ Len(n) = Len(s)
          /\ \A i \in 1..Len(n) :
               \E node \in 1..NumLabels :
                 /\ n[i] = label_lines[node]
                 /\ s[i].num * pred[node].den = 100 * pred[node].num * s[i].den
                 /\ 100 * pred[node].num > 20 * pred[node].den
          /\ \A node \in 1..NumLabels :
               100 * pred[node].num > 20 * pred[node].den =>
                 \E i \in 1..Len(n) : n[i] = label_lines[node]
          /\ \A i, j \in 1..Len(n) : i # j => n[i] # n[j]
          /\ \A i, j \in 1..Len(s) :
               i < j => s[i].num * s[j].den >= s[j].num * s[i].den

\* a page listing both labels, the first with the strictly higher score
C2_Witness ==
  \E r \in Reqs :
    /\ pc[r] = "rendered"
    /\ Len(name[r]) = 2
    /\ Gt(scores[r][1], scores[r][2])
    /\ name[r][1] = label_lines[2]

\* C3: a request with no file in field "file", or served while the label
\* file or the graph file is missing, never renders complete.html; when it
\* ends, it ends in an uncaught exception, which nothing in upload() handles
\* (once raised it stays).
C3_FailuresUnhandled ==
  \A r \in Reqs :
    (pc[r] # "idle" /\ (files[r] = <<>> \/ ~labelsExist \/ ~graphExists)) =>
      /\ pc[r] # "rendered"
      /\ Finished(r) => pc[r] = "error" /\ exc[r] # ""
      /\ exc[r] # "" => pc[r] = "error"

\* a request without files that died of the unbound `destination` while both
\* model files were present
C3_Witness ==
  \E r \in Reqs :
    /\ files[r] = <<>>
    /\ pc[r] = "error"
    /\ exc[r] = "UnboundLocalError"
    /\ labelsExist /\ graphExists

NoInterleave == \A r, q \in Reqs : r # q => ~(Active(r) /\ Active(q))

ClassifiesOwnBytes ==
  \A r \in Reqs :
    image_data[r] # NoData => image_data[r] = LastFile(r).bytes

====
